---- MODULE Spec2Model ----
(***************************************************************************)
(* Model of improved_note_detection.py: the command-line entry point and   *)
(* detect_notes(image_path), run against a file system that persists       *)
(* between runs of the program.                                            *)
(*                                                                         *)
(* Paths are sequences of one-character strings, so that str.replace is    *)
(* computed character by character.  An image is abstracted to its         *)
(* dimensions, the contours the lines 26-45 pipeline extracts from its     *)
(* pixels, and the set of rectangles this program has painted on it.       *)
(* Contour areas are kept doubled (area2 = 2 * contourArea), because       *)
(* cv2.contourArea yields multiples of 0.5.                                *)
(***************************************************************************)
EXTENDS Integers, Sequences, FiniteSets, TLC

VARIABLES
    fs,          \* the file system: path -> content, for the paths that exist
    pc,          \* position of the running program
    runs,        \* number of program runs started so far
    argv,        \* sys.argv of the current run
    image_path,  \* detect_notes parameter
    img,         \* decoded image, painted in place by cv2.rectangle
    contours,    \* result of cv2.findContours
    bboxes,      \* list built by the filter loop
    out_path,    \* derived output path
    exc,         \* exception that ended the run, "none" if none
    status,      \* process exit status, -1 while running
    stdout,      \* what line 77 printed, NoPrint if nothing
    stderr,      \* message printed on stderr, <<>> if nothing
    fs0,         \* history: the file system when the run started
    src,         \* history: the image as imread decoded it
    writes,      \* history: the file writes of the current run
    reads,       \* history: number of imread calls of the current run
    calls,       \* history: the arguments detect_notes was called with
    prev         \* history: outcome of the immediately preceding run

vars == <<fs, pc, runs, argv, image_path, img, contours, bboxes, out_path,
          exc, status, stdout, stderr, fs0, src, writes, reads, calls, prev>>

----------------------------------------------------------------------------
(* Bounds *)

MaxRuns == 2

MaxContours == 3

----------------------------------------------------------------------------
(* Program constants *)

MinArea == 30

AspectLo10 == 7

AspectHi10 == 13

MinSize == 5

MaxSize == 120

Thickness == 2

----------------------------------------------------------------------------
(* Paths *)

Str_png == <<".", "p", "n", "g">>

Str_detected_png == <<"_", "d", "e", "t", "e", "c", "t", "e", "d", ".", "p", "n", "g">>

Str_prog == <<"i", "n", "d">>

Str_usage == <<"U", "s", "a", "g", "e">>

InputPaths ==
    { <<"a", ".", "p", "n", "g">>,
      <<"a", ".", "j", "p", "g">>,
      <<"a">>,
      <<"a", ".", "p", "n", "g", ".", "j", "p", "g">>,
      <<"a", ".", "p", "n", "g", ".", "p", "n", "g">>,
      <<"s", ".", "p", "n", "g", "/", "a", ".", "j", "p", "g">> }

\* str.replace(old, new): every non-overlapping occurrence, left to right
RECURSIVE Replace(_, _, _)
Replace(s, old, new) ==
    IF Len(s) < Len(old) THEN s
    ELSE IF SubSeq(s, 1, Len(old)) = old
         THEN new \o Replace(SubSeq(s, Len(old) + 1, Len(s)), old, new)
         ELSE <<s[1]>> \o Replace(Tail(s), old, new)

OutPath(path) == Replace(path, Str_png, Str_detected_png)

\* index of the last "." of a path, 0 if it has none
LastDot(path) ==
    LET dots == {i \in 1..Len(path) : path[i] = "."}
    IN  IF dots = {} THEN 0 ELSE CHOOSE i \in dots : \A j \in dots : j <= i

\* cv2.imwrite picks the encoder from the extension after the last "."
HasEncoder(path) ==
    /\ LastDot(path) > 0
    /\ SubSeq(path, LastDot(path) + 1, Len(path)) \in {<<"p", "n", "g">>, <<"j", "p", "g">>}

\* the directory part of a path: up to the last "/", <<>> if it has none
Dir(path) ==
    LET seps == {i \in 1..Len(path) : path[i] = "/"}
    IN  IF seps = {} THEN <<>>
        ELSE SubSeq(path, 1, (CHOOSE i \in seps : \A j \in seps : j <= i) - 1)

----------------------------------------------------------------------------
(* Images and contours *)

DimsSet == {<<256, 256>>, <<320, 256>>}

Notehead == [x |-> 90,  y |-> 90,  w |-> 21,  h |-> 21,  area2 |-> 628]
Oval     == [x |-> 10,  y |-> 40,  w |-> 7,   h |-> 10,  area2 |-> 60]
Speck    == [x |-> 30,  y |-> 10,  w |-> 8,   h |-> 8,   area2 |-> 59]
Beam     == [x |-> 150, y |-> 60,  w |-> 40,  h |-> 10,  area2 |-> 500]
Blot     == [x |-> 130, y |-> 130, w |-> 121, h |-> 120, area2 |-> 20000]

ContourKinds == {Notehead, Oval, Speck, Beam, Blot}

\* lists of distinct contours, in any discovery order
ContourLists ==
    UNION { { s \in [1..n -> ContourKinds] :
                \A i, j \in 1..n : i # j => s[i] # s[j] } : n \in 0..MaxContours }

Garbage == [kind |-> "garbage"]

Image(dims, cnts, drawn) == [kind |-> "image", dims |-> dims, cnts |-> cnts, drawn |-> drawn]

\* cv2.imread: None unless the path exists and its content decodes
Decodes(files, path) == path \in DOMAIN files /\ files[path].kind = "image"

----------------------------------------------------------------------------
(* The filter loop, lines 47-60 *)

\* cv2.boundingRect(cnt)
BoundingRect(c) == <<c.x, c.y, c.w, c.h>>

\* mutant: the size test of line 57 is missing
KeepsNoSize(c) ==
    /\ ~(c.area2 < 2 * MinArea)
    /\ AspectLo10 * c.h <= 10 * c.w /\ 10 * c.w <= AspectHi10 * c.h

\* The three `continue` tests of the loop body.  aspect = w / float(h) is
\* compared exactly: 0.7 <= w/h <= 1.3 iff 7h <= 10w <= 13h, since w/float(h)
\* and the literals 0.7 and 1.3 round the same way when w/h is 7/10 or 13/10.
Keeps(c) ==
    /\ ~(c.area2 < 2 * MinArea)
    /\ AspectLo10 * c.h <= 10 * c.w /\ 10 * c.w <= AspectHi10 * c.h
    /\ ~(c.w < MinSize \/ c.h < MinSize \/ c.w > MaxSize \/ c.h > MaxSize)

\* one pass of `for cnt in contours`, from index i with the list built so far
\* mutant: the kept box is put in front of the list instead of appended
RECURSIVE FilterLoopPrepend(_, _, _)
FilterLoopPrepend(cnts, i, acc) ==
    IF i > Len(cnts) THEN acc
    ELSE IF Keeps(cnts[i])
         THEN FilterLoopPrepend(cnts, i + 1, <<BoundingRect(cnts[i])>> \o acc)
         ELSE FilterLoopPrepend(cnts, i + 1, acc)

RECURSIVE FilterLoop(_, _, _)
FilterLoop(cnts, i, acc) ==
    IF i > Len(cnts) THEN acc
    ELSE IF Keeps(cnts[i])
         THEN FilterLoop(cnts, i + 1, Append(acc, BoundingRect(cnts[i])))
         ELSE FilterLoop(cnts, i + 1, acc)

\* w / float(h) raises ZeroDivisionError when h = 0
DivisionRaises(cnts) == \E i \in 1..Len(cnts) : cnts[i].h = 0

----------------------------------------------------------------------------
(* Drawing, lines 62-63 *)

Max(a, b) == IF a >= b THEN a ELSE b

Range(s) == {s[i] : i \in 1..Len(s)}

\* cv2.rectangle(img, (x, y), (x + w, y + h), green, 2) strokes the columns
\* x and x + w and the rows y and y + h, Thickness pixels wide.  The blob lies
\* in columns x .. x + w - 1, so the stroke covers its first column and row.
\* After Otsu the green stroke (grey 150) is either ink or paper:
\*   ink:   the blob and its frame are one contour, the frame's extent;
\*   paper: the blob loses the column and the row under the stroke.
Framed(c) ==
    [x |-> Max(0, c.x - Thickness \div 2), y |-> Max(0, c.y - Thickness \div 2),
     w |-> c.w + 1 + Thickness, h |-> c.h + 1 + Thickness,
     area2 |-> 2 * (c.w + Thickness) * (c.h + Thickness)]

Clipped(c) ==
    [x |-> c.x + 1, y |-> c.y + 1, w |-> c.w - 1, h |-> c.h - 1,
     area2 |-> Max(0, c.area2 - 2 * (c.w + c.h))]

\* the contour lists the pipeline can extract once `boxes` are painted on an
\* image whose contours were `cnts`: unchanged (the cleanup removes the
\* stroke), or every outlined contour framed, or every outlined contour clipped
Repainted(cnts, boxes) ==
    IF boxes = <<>> THEN {cnts}
    ELSE { cnts,
           [i \in 1..Len(cnts) |->
               IF BoundingRect(cnts[i]) \in Range(boxes) THEN Framed(cnts[i]) ELSE cnts[i]],
           [i \in 1..Len(cnts) |->
               IF BoundingRect(cnts[i]) \in Range(boxes) THEN Clipped(cnts[i]) ELSE cnts[i]] }

----------------------------------------------------------------------------
(* File system *)

\* the file system after a successful write of `content` at `path`
WriteFile(files, path, content) ==
    [q \in DOMAIN files \cup {path} |-> IF q = path THEN content ELSE files[q]]

\* cv2.imwrite can open the file only in a directory that exists; the
\* working directory <<>> always does
CanOpen(files, path) == Dir(path) \in {<<>>} \cup {Dir(q) : q \in DOMAIN files}

\* mutant: the write goes through a temporary file that is left behind
AfterImwriteLeavesTemp(files, path, content, ok) ==
    IF ok THEN WriteFile(WriteFile(files, <<"t", "m", "p">>, content), path, content)
    ELSE files

\* the file system after cv2.imwrite(path, content) returned `ok`
AfterImwrite(files, path, content, ok) ==
    IF ok THEN WriteFile(files, path, content) ELSE files

----------------------------------------------------------------------------
(* State *)

NoImage == [kind |-> "none"]

NoPrint == [printed |-> FALSE]

NoPrev == [returned |-> FALSE]

\* mutant: the count printed is one more than the number of boxes
PrintedOffByOne(boxes, res) == [printed |-> TRUE, count |-> Len(boxes) + 1, path |-> res]

\* what line 77 prints
Printed(boxes, res) == [printed |-> TRUE, count |-> Len(boxes), path |-> res]

\* exit status of `raise SystemExit(<message>)`
UsageStatus == 1

\* exit status of a run ended by an uncaught exception
TracebackStatus == 1

Args ==
    {<<Str_prog>>} \cup {<<Str_prog, p>> : p \in InputPaths}
                   \cup {<<Str_prog, p, Str_usage>> : p \in {<<"a", ".", "p", "n", "g">>}}

Init ==
    /\ \E p \in InputPaths :
         \E c \in {Image(d, l, {}) : d \in DimsSet, l \in ContourLists} \cup {Garbage} :
            fs = (p :> c)
    /\ pc = "idle"
    /\ runs = 0
    /\ argv = <<>>
    /\ image_path = <<>>
    /\ img = NoImage
    /\ contours = <<>>
    /\ bboxes = <<>>
    /\ out_path = <<>>
    /\ exc = "none"
    /\ status = -1
    /\ stdout = NoPrint
    /\ stderr = <<>>
    /\ fs0 = fs
    /\ src = NoImage
    /\ writes = <<>>
    /\ reads = 0
    /\ calls = <<>>
    /\ prev = NoPrev

\* the outcome of the run that just ended, kept for the next run
Outcome ==
    IF pc = "exit" /\ exc = "none" /\ calls # <<>>
    THEN [returned |-> TRUE, path |-> image_path, boxes |-> bboxes]
    ELSE NoPrev

\* the program is started with some command line
Invoke ==
    /\ pc \in {"idle", "exit"}
    /\ runs < MaxRuns
    /\ \E a \in Args : argv' = a
    /\ runs' = runs + 1
    /\ prev' = Outcome
    /\ pc' = "main"
    /\ image_path' = <<>> /\ img' = NoImage /\ contours' = <<>> /\ bboxes' = <<>>
    /\ out_path' = <<>> /\ exc' = "none" /\ status' = -1
    /\ stdout' = NoPrint /\ stderr' = <<>>
    /\ fs0' = fs /\ src' = NoImage /\ writes' = <<>> /\ reads' = 0 /\ calls' = <<>>
    /\ UNCHANGED fs

\* lines 73-74
MainUsage ==
    /\ pc = "main"
    /\ Len(argv) < 2
    /\ exc' = "SystemExit"
    /\ stderr' = Str_usage
    /\ status' = UsageStatus
    /\ pc' = "exit"
    /\ UNCHANGED <<fs, runs, argv, image_path, img, contours, bboxes, out_path,
                   stdout, fs0, src, writes, reads, calls, prev>>

\* line 76: detect_notes(sys.argv[1])
MainCall ==
    /\ pc = "main"
    /\ ~(Len(argv) < 2)
    /\ image_path' = argv[2]
    /\ calls' = Append(calls, argv[2])
    /\ pc' = "imread"
    /\ UNCHANGED <<fs, runs, argv, img, contours, bboxes, out_path, exc, status,
                   stdout, stderr, fs0, src, writes, reads, prev>>

\* mutant: the output file is created before the decode check
ImreadFailAfterCreate ==
    /\ pc = "imread"
    /\ ~Decodes(fs, image_path)
    /\ reads' = reads + 1
    /\ exc' = "FileNotFoundError"
    /\ status' = TracebackStatus
    /\ fs' = WriteFile(fs, OutPath(image_path), Garbage)
    /\ pc' = "exit"
    /\ UNCHANGED <<runs, argv, image_path, img, contours, bboxes, out_path,
                   stdout, stderr, fs0, src, writes, calls, prev>>

\* lines 22-24, img is None
ImreadFail ==
    /\ pc = "imread"
    /\ ~Decodes(fs, image_path)
    /\ reads' = reads + 1
    /\ exc' = "FileNotFoundError"
    /\ status' = TracebackStatus
    /\ pc' = "exit"
    /\ UNCHANGED <<fs, runs, argv, image_path, img, contours, bboxes, out_path,
                   stdout, stderr, fs0, src, writes, calls, prev>>

\* lines 22-23, img decoded
ImreadOk ==
    /\ pc = "imread"
    /\ Decodes(fs, image_path)
    /\ reads' = reads + 1
    /\ img' = fs[image_path]
    /\ src' = fs[image_path]
    /\ pc' = "pipeline"
    /\ UNCHANGED <<fs, runs, argv, image_path, contours, bboxes, out_path, exc,
                   status, stdout, stderr, fs0, writes, calls, prev>>

\* lines 26-45: grey, Otsu, staff removal, cleanup, findContours
FindContours ==
    /\ pc = "pipeline"
    /\ contours' = img.cnts
    /\ pc' = "loop"
    /\ UNCHANGED <<fs, runs, argv, image_path, img, bboxes, out_path, exc,
                   status, stdout, stderr, fs0, src, writes, reads, calls, prev>>

\* lines 47-60, the whole loop
Loop ==
    /\ pc = "loop"
    /\ IF DivisionRaises(contours)
       THEN /\ exc' = "ZeroDivisionError"
            /\ status' = TracebackStatus
            /\ pc' = "exit"
            /\ UNCHANGED bboxes
       ELSE /\ bboxes' = FilterLoop(contours, 1, <<>>)
            /\ pc' = "draw"
            /\ UNCHANGED <<exc, status>>
    /\ UNCHANGED <<fs, runs, argv, image_path, img, contours, out_path,
                   stdout, stderr, fs0, src, writes, reads, calls, prev>>

\* lines 62-63: the rectangles are painted on img in place
Draw ==
    /\ pc = "draw"
    /\ \E l \in Repainted(img.cnts, bboxes) :
          img' = [img EXCEPT !.cnts = l, !.drawn = @ \cup Range(bboxes)]
    /\ pc' = "imwrite"
    /\ UNCHANGED <<fs, runs, argv, image_path, contours, bboxes, out_path, exc,
                   status, stdout, stderr, fs0, src, writes, reads, calls, prev>>

\* lines 65-66, cv2.imwrite finds no encoder for the extension and raises
ImwriteRaises ==
    /\ pc = "imwrite"
    /\ out_path' = OutPath(image_path)
    /\ ~HasEncoder(out_path')
    /\ exc' = "cv2.error"
    /\ status' = TracebackStatus
    /\ pc' = "exit"
    /\ UNCHANGED <<fs, runs, argv, image_path, img, contours, bboxes,
                   stdout, stderr, fs0, src, writes, reads, calls, prev>>

\* lines 65-66, cv2.imwrite returns True (file written) or False (the file
\* could not be opened for writing); the return value is dropped
Imwrite ==
    /\ pc = "imwrite"
    /\ out_path' = OutPath(image_path)
    /\ HasEncoder(out_path')
    /\ \E ok \in (IF CanOpen(fs, out_path') THEN BOOLEAN ELSE {FALSE}) :
          /\ fs' = AfterImwrite(fs, out_path', img, ok)
          /\ writes' = Append(writes, [path |-> out_path', content |-> img, ok |-> ok])
    /\ pc' = "return"
    /\ UNCHANGED <<runs, argv, image_path, img, contours, bboxes, exc, status,
                   stdout, stderr, fs0, src, reads, calls, prev>>

\* line 67 and lines 76-77: return out_path, bboxes; print; exit 0
ReturnPrint ==
    /\ pc = "return"
    /\ stdout' = Printed(bboxes, out_path)
    /\ status' = 0
    /\ pc' = "exit"
    /\ UNCHANGED <<fs, runs, argv, image_path, img, contours, bboxes, out_path,
                   exc, stderr, fs0, src, writes, reads, calls, prev>>

Next ==
    \/ Invoke
    \/ MainUsage
    \/ MainCall
    \/ ImreadFail
    \/ ImreadOk
    \/ FindContours
    \/ Loop
    \/ Draw
    \/ ImwriteRaises
    \/ Imwrite
    \/ ReturnPrint

Spec == Init /\ [][Next]_vars

----------------------------------------------------------------------------
(* Properties *)

\* detect_notes returned and the program ended normally
Returned == pc = "exit" /\ status = 0

\* detect_notes was called and has ended, by return or by exception
Ended == pc = "exit" /\ calls # <<>>

\* the filter predicate as the specification words it, on a contour
InBand(c) ==
    /\ c.area2 >= 60
    /\ 7 * c.h <= 10 * c.w /\ 10 * c.w <= 13 * c.h
    /\ 5 <= c.w /\ c.w <= 120 /\ 5 <= c.h /\ c.h <= 120

\* the rectangles of the contours of a list, in the list's order
RECURSIVE Rects(_)
Rects(cnts) ==
    IF cnts = <<>> THEN <<>> ELSE <<BoundingRect(Head(cnts))>> \o Rects(Tail(cnts))

\* the path with "_detected" put right before its extension
SuffixedBeforeExt(path) ==
    LET d == IF LastDot(path) > 1 THEN LastDot(path) ELSE Len(path) + 1
    IN  SubSeq(path, 1, d - 1) \o <<"_", "d", "e", "t", "e", "c", "t", "e", "d">>
                               \o SubSeq(path, d, Len(path))

\* C1: every box of the returned list is the bounding rectangle of an
\* extracted contour with area >= 30, 0.7 <= w/h <= 1.3 and 5 <= w, h <= 120.
C1_BoxesSatisfyFilter ==
    Returned =>
        \A i \in 1..Len(bboxes) :
            \E j \in 1..Len(contours) :
                BoundingRect(contours[j]) = bboxes[i] /\ InBand(contours[j])

C1_Witness ==
    Returned /\ bboxes # <<>> /\ Len(bboxes) < Len(contours)

\* C2: when the path does not decode (missing, or not an image), the call
\* ends with FileNotFoundError before any processing, nothing is written and
\* the file system is what it was before the call.
C2_DecodeFailureWritesNothing ==
    (Ended /\ ~(image_path \in DOMAIN fs0 /\ fs0[image_path].kind = "image")) =>
        /\ exc = "FileNotFoundError"
        /\ fs = fs0
        /\ writes = <<>>
        /\ img = NoImage /\ contours = <<>> /\ out_path = <<>>

C2_Witness ==
    Ended /\ exc = "FileNotFoundError" /\ image_path \notin DOMAIN fs0 /\ runs = 1

\* C3: the returned output path is the input path with "_detected" inserted
\* immediately before the file extension, whatever the extension is.
C3_OutPathSuffixBeforeExt ==
    Returned => out_path = SuffixedBeforeExt(image_path)

\* C4: after a call that returns, a decodable image of the input's dimensions
\* exists at the output path, and the write there took place.
C4_OutputExistsAfterReturn ==
    Returned =>
        /\ out_path \in DOMAIN fs
        /\ fs[out_path].kind = "image"
        /\ fs[out_path].dims = src.dims
        /\ \E k \in 1..Len(writes) : writes[k].path = out_path /\ writes[k].ok

\* C5: two runs in succession on the same input path return the same boxes.
C5_SameBoxesOnRerun ==
    (Returned /\ prev.returned /\ prev.path = image_path) => bboxes = prev.boxes

\* C6: a call whose input image decoded returns without raising.
C6_DecodeFailureOnlyError ==
    (Ended /\ src # NoImage) => exc = "none" /\ status = 0

C8_CommandLine ==
    /\ (runs > 0 /\ Len(argv) < 2) =>
          /\ pc \in {"main", "exit"}
          /\ calls = <<>> /\ reads = 0 /\ writes = <<>> /\ fs = fs0
          /\ pc = "exit" => (exc = "SystemExit" /\ stderr = Str_usage /\ status # 0)
    /\ (runs > 0 /\ Len(argv) >= 2 /\ pc # "main") => calls = <<argv[2]>>
    /\ Returned => (stdout.printed /\ stdout.count = Len(bboxes))
    /\ stdout.printed => Returned

C8_Witness ==
    pc = "exit" /\ exc = "SystemExit" /\ prev.returned /\ Len(prev.boxes) = 2

\* C9: the returned list is the bounding rectangles of the extracted contours
\* that pass the filter, in contour order, each once; with no passing contour
\* the list is empty and the write of the output image is still performed.
C9_BoxesAreFilteredContours ==
    Returned =>
        /\ bboxes = Rects(SelectSeq(contours, InBand))
        /\ contours = src.cnts
        /\ Len(writes) = 1 /\ writes[1].path = out_path
        /\ bboxes = <<>> => writes[1].content = src

C9_Witness ==
    /\ Returned
    /\ contours = <<Oval, Beam, Notehead>>
    /\ bboxes = <<BoundingRect(Oval), BoundingRect(Notehead)>>

\* C10: the output path differs from the input path, and the input file holds
\* after the call what it held before.
C10_InputNotOverwritten ==
    Returned =>
        /\ out_path # image_path
        /\ image_path \in DOMAIN fs /\ fs[image_path] = fs0[image_path]

====
